---- MODULE Spec2Model ----
(***************************************************************************)
(* Pocket Tasks AI: the intent classifier flow (createTasklistFlow), the   *)
(* insight flow (provideTaskInsightFlow) and the page that applies their   *)
(* results to the in-memory task list (HomePage, TaskForm,                 *)
(* TaskInsightDialog).                                                     *)
(*                                                                         *)
(* Strings the code inspects (prompts, task texts, error messages) are     *)
(* sequences of one-character strings, so that trim, toLowerCase,          *)
(* includes and the list-indicator regular expression are computed.        *)
(* User-facing messages are records [text, args, nums]: the template       *)
(* literal, the strings interpolated into it and the numbers interpolated  *)
(* into it.  A message whose text is "" stands for undefined, null and     *)
(* the empty string, which every test in the code (!x, x && ...) treats    *)
(* alike.                                                                  *)
(***************************************************************************)
EXTENDS Integers, Sequences, FiniteSets, TLC

VARIABLES
    tasks,                \* page.tsx useState<Task[]>: sequence of [id, text, completed]
    nextId,               \* crypto.randomUUID(): the next value of a generator that never repeats
    aiMessage,            \* page.tsx useState aiMessage
    toast,                \* the toast most recently passed to toast()
    isFormProcessing,     \* page.tsx useState isFormProcessing
    request,              \* the classifier request of TaskForm.onSubmit, with the closure it captured
    taskForInsight,       \* page.tsx useState taskForInsight
    insightData,          \* page.tsx useState insightData
    isLoadingInsight,     \* page.tsx useState isLoadingInsight
    isInsightDialogOpen,  \* page.tsx useState isInsightDialogOpen
    insightReqs,          \* the insight requests in flight, in the order they were issued
    storage,              \* localStorage: what is held under LOCAL_STORAGE_KEY
    isMounted,            \* page.tsx useState isMounted
    editors,              \* TaskItemDisplay useState isEditing, editText: task id -> text being edited
    promptField,          \* TaskForm useForm: the value of the form's `prompt` field
    last                  \* the call most recently completed: its inputs, its result and the list before it

vars == <<tasks, nextId, aiMessage, toast, isFormProcessing, request, taskForInsight,
          insightData, isLoadingInsight, isInsightDialogOpen, insightReqs, storage,
          isMounted, editors, promptField, last>>

insightVars == <<taskForInsight, insightData, isLoadingInsight, isInsightDialogOpen>>

\* what only changes when the task list does, or at startup
mirrorVars == <<storage, isMounted, editors>>

-----------------------------------------------------------------------------
(* Bounds of the model *)

\* the id generator is used at most MaxId times
MaxId == 2

\* the raw taskList of a model output has at most MaxRawLen entries
MaxRawLen == 3

\* at most MaxInsightReqs insight requests are in flight at once
MaxInsightReqs == 1

\* insight requests in flight where requests overlap
MaxOverlap == 2

-----------------------------------------------------------------------------
(* Strings *)

LowerLetters ==
    <<"a","b","c","d","e","f","g","h","i","j","k","l","m",
      "n","o","p","q","r","s","t","u","v","w","x","y","z">>

UpperLetters ==
    <<"A","B","C","D","E","F","G","H","I","J","K","L","M",
      "N","O","P","Q","R","S","T","U","V","W","X","Y","Z">>

Digits == {"0","1","2","3","4","5","6","7","8","9"}

WhiteSpace == {" ", "\t", "\n"}

IsUpper(c) == \E i \in DOMAIN UpperLetters : UpperLetters[i] = c

IsLower(c) == \E i \in DOMAIN LowerLetters : LowerLetters[i] = c

\* a character the regular expression class \w matches
IsWordChar(c) == IsUpper(c) \/ IsLower(c) \/ c \in Digits \/ c = "_"

ToLowerChar(c) ==
    IF IsUpper(c)
    THEN LowerLetters[CHOOSE i \in DOMAIN UpperLetters : UpperLetters[i] = c]
    ELSE c

ToUpperChar(c) ==
    IF IsLower(c)
    THEN UpperLetters[CHOOSE i \in DOMAIN LowerLetters : LowerLetters[i] = c]
    ELSE c

\* String.prototype.toLowerCase
ToLowerCase(s) == [i \in DOMAIN s |-> ToLowerChar(s[i])]

RECURSIVE TrimStart(_)
TrimStart(s) ==
    IF s # <<>> /\ Head(s) \in WhiteSpace THEN TrimStart(Tail(s)) ELSE s

RECURSIVE TrimEnd(_)
TrimEnd(s) ==
    IF s # <<>> /\ s[Len(s)] \in WhiteSpace THEN TrimEnd(SubSeq(s, 1, Len(s) - 1)) ELSE s

\* String.prototype.trim
Trim(s) == TrimEnd(TrimStart(s))

\* String.prototype.includes
Includes(s, sub) ==
    \E i \in 1..(Len(s) - Len(sub) + 1) : SubSeq(s, i, i + Len(sub) - 1) = sub

\* s.charAt(0).toUpperCase() + s.slice(1) of a trimmed string
Capitalize(s) ==
    LET t == Trim(s) IN IF Len(t) > 0 THEN <<ToUpperChar(t[1])>> \o Tail(t) ELSE t

\* /\band\b/i : "and" with a word boundary on either side
MatchesWordAnd(s) ==
    LET l == ToLowerCase(s) IN
    \E i \in 1..(Len(l) - 2) :
        /\ SubSeq(l, i, i + 2) = <<"a","n","d">>
        /\ (i = 1 \/ ~IsWordChar(l[i - 1]))
        /\ (i + 2 = Len(l) \/ ~IsWordChar(l[i + 3]))

\* /(\band\b|,|plan|list of)/i.test(prompt)
\* a variant that sees no list indicator in any prompt
NoListIndicator(prompt) == FALSE

HasListIndicator(prompt) ==
    LET l == ToLowerCase(prompt) IN
    \/ MatchesWordAnd(prompt)
    \/ Includes(l, <<",">>)
    \/ Includes(l, <<"p","l","a","n">>)
    \/ Includes(l, <<"l","i","s","t"," ","o","f">>)

-----------------------------------------------------------------------------
(* Messages *)

Msg(t, a, n) == [text |-> t, args |-> a, nums |-> n]

Text(t) == Msg(t, <<>>, <<>>)

\* undefined, null or ""
NoMsg == Text("")

\* !m
Falsy(m) == m.text = ""

-----------------------------------------------------------------------------
(* createTasklistFlow: the classifier call and the response normalizer *)

Actions ==
    {"add_tasks", "clear_all_tasks", "complete_all_tasks", "query_task_count",
     "no_action_conversational_reply"}

\* The outcome of `await prompt(input)`: kind "output" (an output object with
\* the fields below; action "" and a falsy reasoning are omitted fields),
\* "null" (output is null), "throws" (the call throws `error`); and kind
\* "rejects": the call of the server action createTasklist itself rejects.
RawOutcome(k, isArr, tl, r, a, e) ==
    [kind |-> k, taskListIsArray |-> isArr, taskList |-> tl, reasoning |-> r,
     action |-> a, error |-> e]

NoError == [hasMessage |-> FALSE, message |-> <<>>]

ErrorWith(m) == [hasMessage |-> TRUE, message |-> m]

FlowResult(tl, r, a) == [threw |-> FALSE, taskList |-> tl, reasoning |-> r, action |-> a]

Rejected == [threw |-> TRUE, taskList |-> <<>>, reasoning |-> NoMsg, action |-> ""]

\* output?.taskList && Array.isArray(output.taskList) ? output.taskList : []
RawTaskList(raw) ==
    IF raw.kind = "output" /\ raw.taskListIsArray THEN raw.taskList ELSE <<>>

\* output?.reasoning
RawReasoning(raw) == IF raw.kind = "output" THEN raw.reasoning ELSE NoMsg

\* a variant that does not default an absent action
RawActionAsGiven(raw) == IF raw.kind = "output" THEN raw.action ELSE ""

\* output?.action || "add_tasks"
RawAction(raw) ==
    IF raw.kind = "output" /\ raw.action # "" THEN raw.action ELSE "add_tasks"

\* taskList.every(task => task.trim().toLowerCase() === promptLowerTrimmed)
AllTasksMatchPrompt(taskList, prompt) ==
    \A i \in DOMAIN taskList :
        ToLowerCase(Trim(taskList[i])) = ToLowerCase(Trim(prompt))

\* Array.from(new Set(taskList.map(t => t.trim()))): first occurrences, in order
RECURSIVE UniqueTasks(_)
UniqueTasks(taskList) ==
    IF taskList = <<>> THEN <<>>
    ELSE LET front == UniqueTasks(SubSeq(taskList, 1, Len(taskList) - 1))
             t == Trim(taskList[Len(taskList)])
         IN  IF \E i \in DOMAIN front : front[i] = t THEN front ELSE Append(front, t)

\* the post-processing that reduces echoed, identical tasks to one
CollapseEchoedTasks(action, taskList, prompt) ==
    IF action = "add_tasks" /\ Len(taskList) > 1
    THEN IF AllTasksMatchPrompt(taskList, prompt) /\ Len(taskList) > 0
         THEN <<Trim(taskList[1])>>
         ELSE LET uniqueTasks == UniqueTasks(taskList) IN
              IF Len(uniqueTasks) = 1 /\ Len(taskList) > 1 /\ ~HasListIndicator(prompt)
              THEN <<uniqueTasks[1]>>
              ELSE taskList
    ELSE taskList

ClearReasoning ==
    Text("Okay, I've processed your request to clear all tasks. Your list will be emptied.")

CompleteReasoning ==
    Text("Okay, I've processed your request to mark all tasks as completed. Your tasks will be updated accordingly.")

QueryReasoning ==
    Text("You're asking about your task count. The application will provide this information.")

GreetingReasoning == Text("Hello! How can I help you with your tasks today?")

\* if (!reasoning) { ... }: the default reasoning per action
DefaultReasoning(action, taskList, prompt) ==
    IF action = "clear_all_tasks" THEN ClearReasoning
    ELSE IF action = "complete_all_tasks" THEN CompleteReasoning
    ELSE IF action = "query_task_count" THEN QueryReasoning
    ELSE IF action = "no_action_conversational_reply" THEN GreetingReasoning
    ELSE IF Len(taskList) > 0 /\ action = "add_tasks"
    THEN IF Len(taskList) = 1
         THEN LET singleTaskText == taskList[1] IN
              IF \/ ToLowerCase(Trim(singleTaskText)) = ToLowerCase(Trim(prompt))
                 \/ Trim(singleTaskText) = Capitalize(prompt)
              THEN Msg("I've created a task based on your input: '${task}'. If this wasn't what you meant, try rephrasing or use the info button for more options.",
                       <<Trim(singleTaskText)>>, <<>>)
              ELSE Msg("Okay, I've added '${task}' to your list. You can get more details or a breakdown using the info button!",
                       <<Trim(singleTaskText)>>, <<>>)
         ELSE Msg("Alright, I've drafted a plan with ${n} task(s) for you!", <<>>, <<Len(taskList)>>)
    ELSE IF Len(taskList) = 0 /\ action = "add_tasks"
    THEN Msg("I've processed your request: '${prompt}'. No specific tasks were generated. If you intended to create tasks, try rephrasing.",
             <<Capitalize(prompt)>>, <<>>)
    ELSE IF Len(taskList) > 0
    THEN Msg("AI processed your request. ${n} task(s) were affected.", <<>>, <<Len(taskList)>>)
    ELSE IF action # "add_tasks"
    THEN Text("AI processed your request. The action was '${action}'.")
    ELSE Text("AI processed your request. No tasks were generated or specific action taken. You can try rephrasing your request.")

\* a variant that forgets the two read-only actions
IsDestructiveAction(action) == action \in {"clear_all_tasks", "complete_all_tasks"}

IsCommandAction(action) ==
    action \in {"clear_all_tasks", "complete_all_tasks", "query_task_count",
                "no_action_conversational_reply"}

\* the reasoning returned when a command action came with a non-empty taskList
FinalReasoning(action, reasoning, rawReasoning) ==
    IF Falsy(rawReasoning)
    THEN IF action = "clear_all_tasks" THEN ClearReasoning
         ELSE IF action = "complete_all_tasks"
         THEN Text("Okay, I've processed your request to mark all tasks as completed.")
         ELSE IF action = "query_task_count" THEN QueryReasoning
         ELSE IF action = "no_action_conversational_reply"
         THEN Text("Hello! How can I help you today?")
         ELSE reasoning
    ELSE reasoning

\* a variant without the final check
NoFinalCheck(action, taskList, reasoning, rawReasoning) ==
    FlowResult(taskList, reasoning, action)

\* Final check: if action is not add_tasks, taskList should be empty.
FinalCheck(action, taskList, reasoning, rawReasoning) ==
    IF IsCommandAction(action) /\ Len(taskList) > 0
    THEN FlowResult(<<>>, FinalReasoning(action, reasoning, rawReasoning), action)
    ELSE FlowResult(taskList, reasoning, action)

\* the try block of createTasklistFlow, for an outcome that does not throw
NormalizeOutput(prompt, raw) ==
    LET action == RawAction(raw)
        taskList == CollapseEchoedTasks(action, RawTaskList(raw), prompt)
        reasoning == IF Falsy(RawReasoning(raw))
                     THEN DefaultReasoning(action, taskList, prompt)
                     ELSE RawReasoning(raw)
    IN  FinalCheck(action, taskList, reasoning, RawReasoning(raw))

UnknownErrorMessage ==
    <<"A","n"," ","u","n","k","n","o","w","n"," ","e","r","r","o","r"," ",
      "o","c","c","u","r","r","e","d"," ","w","i","t","h"," ","t","h","e"," ",
      "A","I"," ","s","e","r","v","i","c","e",".">>

\* the message of the caught value, or the fallback for a value without one
ErrorMessageOf(error) == IF error.hasMessage THEN error.message ELSE UnknownErrorMessage

UserFriendlyMessage(errorMessage) ==
    LET lower == ToLowerCase(errorMessage) IN
    IF \/ Includes(errorMessage, <<"5","0","3">>)
       \/ Includes(lower, <<"o","v","e","r","l","o","a","d","e","d">>)
       \/ Includes(lower, <<"u","n","a","v","a","i","l","a","b","l","e">>)
    THEN Text("The AI service is currently overloaded or unavailable. Please try again in a little while.")
    ELSE IF Includes(lower, <<"a","p","i"," ","k","e","y">>)
    THEN Text("There seems to be an issue with the AI service configuration. Please contact support.")
    ELSE IF \/ Includes(lower, <<"m","a","l","f","o","r","m","e","d">>)
            \/ Includes(lower, <<"p","a","r","s","e">>)
    THEN Text("The AI returned an unexpected response. I'll try to handle it, but you might want to rephrase your request.")
    ELSE Text("I'm having trouble connecting to the AI service right now. Please try again in a few moments.")

\* a variant of the catch block that answers with a clear command
CatchHandlerClears(error) ==
    FlowResult(<<>>, UserFriendlyMessage(ErrorMessageOf(error)), "clear_all_tasks")

\* the catch block of createTasklistFlow
CatchHandler(error) ==
    FlowResult(<<>>, UserFriendlyMessage(ErrorMessageOf(error)), "add_tasks")

\* a variant of the flow without its try/catch
FlowWithoutCatch(prompt, raw) ==
    IF raw.kind = "throws" THEN Rejected ELSE NormalizeOutput(prompt, raw)

createTasklistFlow(prompt, raw) ==
    IF raw.kind = "throws" THEN CatchHandler(raw.error) ELSE NormalizeOutput(prompt, raw)

\* the exported server action: the flow's result, unless the call itself rejects
createTasklist(prompt, raw) ==
    IF raw.kind = "rejects" THEN Rejected ELSE createTasklistFlow(prompt, raw)

-----------------------------------------------------------------------------
(* provideTaskInsightFlow *)

InsightValue(e, d, n, hasSub, sub) ==
    [isNull |-> FALSE, estimatedTimeToComplete |-> e, potentialDependencies |-> d,
     additionalNotes |-> n, hasSubTasks |-> hasSub, subTasks |-> sub]

\* insightData === null
NoInsight ==
    [isNull |-> TRUE, estimatedTimeToComplete |-> "", potentialDependencies |-> "",
     additionalNotes |-> "", hasSubTasks |-> FALSE, subTasks |-> <<>>]

InsightResult(threw, v, e) == [threw |-> threw, value |-> v, error |-> e]

\* The outcome of `await prompt(input)` in the insight flow: kind "output"
\* (an output object `value`), "null", "throws"; and kind "rejects": the call
\* of the server action provideTaskInsight itself rejects with `error`.
InsightOutcome(k, v, e) == [kind |-> k, value |-> v, error |-> e]

NotAvailableInsight ==
    InsightValue("Not available", "Not available",
                 "AI could not provide specific insights for this task at the moment.",
                 TRUE, <<>>)

ErrorInsight ==
    InsightValue("Error", "Error",
                 "I'm having trouble connecting to the AI service for insights. Please try again in a few moments.",
                 TRUE, <<>>)

\* a variant of the insight flow without its try/catch
InsightFlowWithoutCatch(outcome) ==
    IF outcome.kind = "throws" THEN InsightResult(TRUE, NoInsight, outcome.error)
    ELSE IF outcome.kind = "null" THEN InsightResult(FALSE, NoInsight, NoError)
    ELSE InsightResult(FALSE, outcome.value, NoError)

provideTaskInsightFlow(outcome) ==
    IF outcome.kind = "throws" THEN InsightResult(FALSE, ErrorInsight, NoError)
    ELSE IF outcome.kind = "null" THEN InsightResult(FALSE, NotAvailableInsight, NoError)
    ELSE InsightResult(FALSE, outcome.value, NoError)

\* the exported server action
provideTaskInsight(outcome) ==
    IF outcome.kind = "rejects" THEN InsightResult(TRUE, NoInsight, outcome.error)
    ELSE provideTaskInsightFlow(outcome)

-----------------------------------------------------------------------------
(* HomePage: the state and the handlers that mutate the list *)

Task(id, text, completed) == [id |-> id, text |-> text, completed |-> completed]

\* taskForInsight === null
NoTask == Task(0, <<>>, FALSE)

Toast(title, description) == [title |-> title, description |-> description]

NoToast == Toast("", NoMsg)

\* tasks.every(task => task.completed)
AllCompleted(list) == \A i \in DOMAIN list : list[i].completed

Ids(list) == {list[i].id : i \in DOMAIN list}

\* handleClearList: the list it sets and the value it returns; `closureTasks`
\* is the `tasks` of the render whose callback is running
handleClearList(closureTasks) ==
    [tasks |-> <<>>, ret |-> Len(closureTasks) > 0]

\* handleCompleteAllTasks: the list after it and the value it returns
handleCompleteAllTasks(closureTasks, currentTasks) ==
    IF Len(closureTasks) = 0 \/ AllCompleted(closureTasks)
    THEN [tasks |-> currentTasks, ret |-> FALSE]
    ELSE [tasks |-> [i \in DOMAIN currentTasks |->
                        [currentTasks[i] EXCEPT !.completed = TRUE]],
          ret |-> TRUE]

\* tasksToAdd.map(text => ({ id: crypto.randomUUID(), text, completed: false }))
NewTasks(texts, firstId) ==
    [i \in DOMAIN texts |-> Task(firstId + i - 1, texts[i], FALSE)]

\* a variant that puts the new tasks behind the old ones
AppendTasks(texts, prevTasks, firstId) == prevTasks \o NewTasks(texts, firstId)

\* a variant that replaces the list by the new tasks
ReplaceByNewTasks(texts, prevTasks, firstId) == NewTasks(texts, firstId)

\* setTasks(prevTasks => [...newTasks, ...prevTasks])
PrependTasks(texts, prevTasks, firstId) == NewTasks(texts, firstId) \o prevTasks

\* what a call of handleListCreated leaves behind
Applied(t, n, m, o) == [tasks |-> t, nextId |-> n, aiMessage |-> m, toast |-> o]

\* handleListCreated(data), run by a callback whose closure holds
\* `closureTasks`, on the state (currentTasks, firstId)
handleListCreated(data, closureTasks, currentTasks, firstId) ==
    IF data.action = "clear_all_tasks"
    THEN LET messageToSet == IF Falsy(data.reasoning) THEN ClearReasoning ELSE data.reasoning
             cleared == handleClearList(closureTasks)
         IN  Applied(cleared.tasks, firstId, messageToSet,
                     IF cleared.ret
                     THEN Toast("List Cleared", Text("All tasks have been removed."))
                     ELSE Toast("List is already empty", Text("There are no tasks to remove.")))
    ELSE IF data.action = "complete_all_tasks"
    THEN LET messageToSet ==
                 IF Falsy(data.reasoning)
                 THEN Text("Okay, I've processed your request to mark all tasks as completed. Your tasks will be updated.")
                 ELSE data.reasoning
             updated == handleCompleteAllTasks(closureTasks, currentTasks)
         IN  Applied(updated.tasks, firstId, messageToSet,
                     IF updated.ret
                     THEN Toast("All Tasks Completed!", Text("Great job, everything is marked as done!"))
                     ELSE IF Len(closureTasks) = 0
                     THEN Toast("No tasks to complete", Text("Your list is empty."))
                     ELSE Toast("All tasks already completed",
                                Text("There are no pending tasks to mark as complete.")))
    ELSE IF data.action = "query_task_count"
    THEN LET messageToSet ==
                 IF Falsy(data.reasoning)
                 THEN Text("I understand you're asking about your task count. You can see this number displayed at the top of your list.")
                 ELSE data.reasoning
         IN  Applied(currentTasks, firstId, messageToSet, Toast("AI Assistant", messageToSet))
    ELSE LET tasksToAdd == data.taskList IN
         IF Len(tasksToAdd) > 0
         THEN LET messageToSet ==
                      IF Falsy(data.reasoning)
                      THEN IF Len(tasksToAdd) = 1
                           THEN Msg("Okay, I've added '${task}' to your list. You can get more details or a breakdown using the info button!",
                                    <<tasksToAdd[1]>>, <<>>)
                           ELSE Msg("Alright, I've drafted a plan with ${n} task(s) for you!",
                                    <<>>, <<Len(tasksToAdd)>>)
                      ELSE data.reasoning
              IN  Applied(PrependTasks(tasksToAdd, currentTasks, firstId),
                          firstId + Len(tasksToAdd), messageToSet,
                          Toast("Tasks Added!", messageToSet))
         ELSE LET messageToSet ==
                      IF Falsy(data.reasoning)
                      THEN Text("AI processed your request, but no new tasks were added.")
                      ELSE data.reasoning
              IN  Applied(currentTasks, firstId, messageToSet, Toast("AI Assistant", messageToSet))

\* prevTasks.map(task => task.id === id ? { ...task, completed: !task.completed } : task)
\* a variant that flips every task
ToggledEveryTask(prevTasks, id) ==
    [i \in DOMAIN prevTasks |->
        [prevTasks[i] EXCEPT !.completed = ~prevTasks[i].completed]]

ToggledTasks(prevTasks, id) ==
    [i \in DOMAIN prevTasks |->
        IF prevTasks[i].id = id
        THEN [prevTasks[i] EXCEPT !.completed = ~prevTasks[i].completed]
        ELSE prevTasks[i]]

\* a variant that removes the first task, whatever its id
DropFirstTask(prevTasks, id) ==
    IF prevTasks = <<>> THEN <<>> ELSE Tail(prevTasks)

\* prevTasks.filter(task => task.id !== id)
RECURSIVE FilteredTasks(_, _)
FilteredTasks(prevTasks, id) ==
    IF prevTasks = <<>> THEN <<>>
    ELSE IF Head(prevTasks).id = id THEN FilteredTasks(Tail(prevTasks), id)
    ELSE <<Head(prevTasks)>> \o FilteredTasks(Tail(prevTasks), id)

\* a variant that gives the new text to every task
UpdatedEveryTask(prevTasks, id, newText) ==
    [i \in DOMAIN prevTasks |-> [prevTasks[i] EXCEPT !.text = newText]]

\* prevTasks.map(task => task.id === id ? { ...task, text: newText } : task)
UpdatedTasks(prevTasks, id, newText) ==
    [i \in DOMAIN prevTasks |->
        IF prevTasks[i].id = id
        THEN [prevTasks[i] EXCEPT !.text = newText]
        ELSE prevTasks[i]]

SubTaskPrefix == <<"S","u","b","-","t","a","s","k"," ","f","o","r"," ","\"">>

SubTaskInfix == <<"\"",":"," ">>

\* `Sub-task for "${parentTaskText}": ${text}`
SubTaskText(parentTaskText, text) ==
    SubTaskPrefix \o parentTaskText \o SubTaskInfix \o text

SubTaskTexts(subTaskTexts, parentTaskText) ==
    [i \in DOMAIN subTaskTexts |-> SubTaskText(parentTaskText, subTaskTexts[i])]

\* What localStorage holds under LOCAL_STORAGE_KEY, by what the load effect
\* can tell apart: no entry ("absent"), the empty string ("empty"), text
\* that JSON.parse rejects ("corrupt"), JSON that is not an array ("other",
\* `items` holding what it is made of) and a JSON array of items ("array")
Stored(kind, items) == [kind |-> kind, items |-> items]

\* an element of a stored array: an object with the fields of a task, where
\* id 0 stands for a missing or falsy id, or else null
StoredItem(id, text, completed) ==
    [isNull |-> FALSE, id |-> id, text |-> text, completed |-> completed]

NullItem == [isNull |-> TRUE, id |-> 0, text |-> <<>>, completed |-> FALSE]

\* JSON.stringify(tasks)
Stringify(list) ==
    Stored("array", [i \in DOMAIN list |->
                        StoredItem(list[i].id, list[i].text, list[i].completed)])

\* localStorage.removeItem(LOCAL_STORAGE_KEY)
Removed == Stored("absent", <<>>)

\* the number of ids the load effect draws for items[1..k]
FreshIdsBefore(items, k) == Cardinality({j \in 1..k : items[j].id = 0})

\* parsedTasks.map(t => ({ ...t, id: t.id || crypto.randomUUID() }))
LoadedTasks(items, firstId) ==
    [i \in DOMAIN items |->
        Task(IF items[i].id # 0 THEN items[i].id
             ELSE firstId + FreshIdsBefore(items, i - 1),
             items[i].text, items[i].completed)]

\* the load effect without its Array.isArray test
LoadAnythingParsed(stored, firstId) ==
    IF stored.kind \in {"absent", "empty"}
    THEN [set |-> FALSE, tasks |-> <<>>, nextId |-> firstId, storage |-> stored]
    ELSE IF stored.kind = "corrupt"
         \/ \E i \in DOMAIN stored.items : stored.items[i].isNull
    THEN [set |-> FALSE, tasks |-> <<>>, nextId |-> firstId, storage |-> Removed]
    ELSE [set |-> TRUE, tasks |-> LoadedTasks(stored.items, firstId),
          nextId |-> firstId + FreshIdsBefore(stored.items, Len(stored.items)),
          storage |-> stored]

\* the load effect: what it passes to setTasks, if it calls it, and what it
\* leaves in storage.  JSON.parse throws on "corrupt" and t.id throws on a
\* null element; the catch removes the entry
LoadEffect(stored, firstId) ==
    IF stored.kind \in {"absent", "empty"}
    THEN [set |-> FALSE, tasks |-> <<>>, nextId |-> firstId, storage |-> stored]
    ELSE IF stored.kind = "corrupt"
    THEN [set |-> FALSE, tasks |-> <<>>, nextId |-> firstId, storage |-> Removed]
    ELSE IF stored.kind # "array"
    THEN [set |-> FALSE, tasks |-> <<>>, nextId |-> firstId, storage |-> stored]
    ELSE IF \E i \in DOMAIN stored.items : stored.items[i].isNull
    THEN [set |-> FALSE, tasks |-> <<>>, nextId |-> firstId, storage |-> Removed]
    ELSE [set |-> TRUE, tasks |-> LoadedTasks(stored.items, firstId),
          nextId |-> firstId + FreshIdsBefore(stored.items, Len(stored.items)),
          storage |-> stored]

\* the persist effect as it was before it looked at isMounted
PersistAlways(mounted, list, stored) == Stringify(list)

\* the persist effect leaving storage alone
NoPersistEffect(mounted, list, stored) == stored

\* the persist effect, run for the list of a render
PersistEffect(mounted, list, stored) ==
    IF mounted THEN Stringify(list) ELSE stored

\* What storage holds after each effect of startup, in the order they run.
\* After the first render, whose list is `list`: the load effect, then the
\* persist effect, which still sees isMounted false.  After the render that
\* setIsMounted and setTasks cause: the persist effect again.
StartupStorage(stored, list, firstId) ==
    LET loaded == LoadEffect(stored, firstId)
        afterFirst == PersistEffect(FALSE, list, loaded.storage)
        shown == IF loaded.set THEN loaded.tasks ELSE list
    IN  <<loaded.storage, afterFirst, PersistEffect(TRUE, shown, afterFirst)>>

-----------------------------------------------------------------------------
(* Inputs *)

\* FormSchema: prompt: z.string().min(10)
MinPromptLen == 10

PromptBuyAB == <<"b","u","y"," ","a"," ","b","u","y"," ","b">>

PromptBuyMilk == <<" "," ","B","u","y"," ","M","i","l","k"," "," ">>

PromptWordAnd == <<"b","u","y"," ","a"," ","a","n","d"," ","b">>

PromptBand == <<"b","u","y"," ","a"," ","b","a","n","d"," ">>

PromptComma == <<"b","u","y"," ","a",","," ","b",","," ","c">>

PromptPlan == <<"P","l","a","n"," ","a"," ","t","r","i","p">>

PromptListOf == <<"l","i","s","t"," ","o","f"," ","a"," ","b">>

BuyMilk == <<"B","u","y"," ","m","i","l","k">>

BuyMilkEcho == <<"b","u","y"," ","m","i","l","k"," ">>

TextA == <<"a">>

TextB == <<"b">>

TextPaddedA == <<" ","a">>

\* the prompts a user submits
Prompts == {PromptBuyAB}

\* nine characters, one short of what the form schema asks for
PromptNine == <<"b","u","y"," ","m","i","l","k"," ">>

\* ten blanks
PromptBlank == <<" "," "," "," "," "," "," "," "," "," ">>

\* what the prompt field holds when the form is submitted
FormPrompts == {<<>>, PromptNine, PromptBlank, PromptBuyAB}

\* the prompts the normalizer is examined on
FlowPrompts ==
    {PromptBuyAB, PromptBuyMilk, PromptWordAnd, PromptBand, PromptComma, PromptPlan,
     PromptListOf}

FlowTaskStrings == {TextA, TextB, TextPaddedA, BuyMilk, BuyMilkEcho}

SeqsUpTo(S, n) == UNION {[1..k -> S] : k \in 0..n}

ModelReasoning == Text("<reasoning written by the model>")

ErrorSamples ==
    {NoError,
     ErrorWith(<<"5","0","3"," ","S","e","r","v","i","c","e"," ","U","n","a","v","a","i","l","a","b","l","e">>),
     ErrorWith(<<"M","o","d","e","l"," ","i","s"," ","O","V","E","R","L","O","A","D","E","D">>),
     ErrorWith(<<"i","n","v","a","l","i","d"," ","A","P","I"," ","k","e","y">>),
     ErrorWith(<<"M","a","l","f","o","r","m","e","d"," ","J","S","O","N">>),
     ErrorWith(<<"c","o","u","l","d"," ","n","o","t"," ","p","a","r","s","e">>),
     ErrorWith(<<"f","e","t","c","h"," ","f","a","i","l","e","d">>)}

FailureOutcomes(errors) ==
    {RawOutcome("throws", FALSE, <<>>, NoMsg, "", e) : e \in errors}
    \cup {RawOutcome("rejects", FALSE, <<>>, NoMsg, "", e) : e \in errors}

OutputOutcomes(lists) ==
    {RawOutcome("output", TRUE, tl, r, a, NoError) :
        tl \in lists, r \in {NoMsg, ModelReasoning}, a \in Actions \cup {""}}
    \cup {RawOutcome("output", FALSE, <<>>, r, a, NoError) :
        r \in {NoMsg, ModelReasoning}, a \in Actions \cup {""}}
    \cup {RawOutcome("null", FALSE, <<>>, NoMsg, "", NoError)}

\* the model outcomes the normalizer is examined on
FlowOutcomes ==
    OutputOutcomes(SeqsUpTo(FlowTaskStrings, MaxRawLen)) \cup FailureOutcomes(ErrorSamples)

\* the model outcomes a submitted request can meet
Outcomes ==
    {RawOutcome("output", TRUE, tl, r, a, NoError) :
        tl \in {<<>>, <<BuyMilk>>, <<BuyMilk, TextB>>}, r \in {NoMsg, ModelReasoning},
        a \in Actions \cup {""}}
    \cup {RawOutcome("null", FALSE, <<>>, NoMsg, "", NoError)}
    \cup FailureOutcomes({ErrorWith(<<"f","e","t","c","h"," ","f","a","i","l","e","d">>)})

\* the outcomes that add tasks or fail
AddOrFailOutcomes ==
    {RawOutcome("output", TRUE, tl, NoMsg, "add_tasks", NoError) :
        tl \in {<<BuyMilk>>, <<BuyMilk, TextB>>}}
    \cup {RawOutcome("null", FALSE, <<>>, NoMsg, "", NoError)}
    \cup FailureOutcomes({ErrorWith(<<"f","e","t","c","h"," ","f","a","i","l","e","d">>)})

\* the texts a user saves when editing a task
EditInputs == {<<"c"," ">>}

SubTaskSample == <<"x">>

\* what a user types into the input of an item in edit mode
EditTexts == {<<" ">>, <<"c", " ">>}

\* the outcome that suggests sub-tasks
SubTaskOutcomes ==
    {InsightOutcome("output", InsightValue("1 hour", "None", "A note", TRUE, <<SubTaskSample>>), NoError)}

InsightOutcomes ==
    {InsightOutcome("output", InsightValue("1 hour", "None", "A note", TRUE, <<SubTaskSample>>), NoError),
     InsightOutcome("output", InsightValue("1 hour", "None", "A note", FALSE, <<>>), NoError),
     InsightOutcome("null", NoInsight, NoError),
     InsightOutcome("throws", NoInsight, ErrorWith(<<"f","e","t","c","h"," ","f","a","i","l","e","d">>)),
     InsightOutcome("rejects", NoInsight, ErrorWith(<<"f","e","t","c","h"," ","f","a","i","l","e","d">>)),
     InsightOutcome("rejects", NoInsight, ErrorWith(<<"A","I"," ","s","e","r","v","i","c","e">>))}

\* what an earlier session, or anything else, has left in storage; the ids
\* of an earlier session differ from every id drawn in this one
JunkItem == StoredItem(-2, TextB, FALSE)

StoredSamples ==
    {Removed,
     Stored("empty", <<>>),
     Stored("corrupt", <<JunkItem>>),
     Stored("other", <<JunkItem>>),
     Stored("array", <<>>),
     Stored("array", <<StoredItem(-1, TextA, TRUE)>>),
     Stored("array", <<StoredItem(0, TextA, FALSE)>>),
     Stored("array", <<NullItem, StoredItem(-1, TextA, FALSE)>>)}

\* what storage holds at the start of the sessions in which every kind of
\* change to the list is followed
MirrorSamples == {Removed, Stored("array", <<StoredItem(0, TextA, FALSE)>>)}

\* a list of two tasks of an earlier session
OverlapSamples ==
    {Stored("array", <<StoredItem(-1, TextA, FALSE), StoredItem(-3, TextB, FALSE)>>)}

\* stored arrays by the ids of their items: none has an id, one has, two
\* have the same
IdSamples ==
    {Stored("array", <<StoredItem(0, TextA, FALSE), StoredItem(0, TextB, FALSE)>>),
     Stored("array", <<StoredItem(-1, TextA, FALSE), StoredItem(0, TextB, FALSE)>>),
     Stored("array", <<StoredItem(-1, TextA, FALSE), StoredItem(-1, TextB, TRUE)>>)}

\* a list of an earlier session
InFlightSamples == {Stored("array", <<StoredItem(-1, TextA, FALSE)>>)}

\* the outcome that adds a task
AddOutcomes == {RawOutcome("output", TRUE, <<BuyMilk>>, NoMsg, "add_tasks", NoError)}

\* one outcome for each action that changes the list
StorageOutcomes ==
    {RawOutcome("output", TRUE, <<BuyMilk>>, NoMsg, "add_tasks", NoError),
     RawOutcome("output", TRUE, <<>>, NoMsg, "clear_all_tasks", NoError),
     RawOutcome("output", TRUE, <<>>, NoMsg, "complete_all_tasks", NoError)}

-----------------------------------------------------------------------------
(* The state machine *)

\* The render that follows a handler which called setTasks: the persist
\* effect runs when the list has changed (a rewrite of an equal list leaves
\* the same text in storage), and the items whose task is gone are unmounted
AfterSetTasks ==
    /\ storage' = IF tasks' # tasks THEN PersistEffect(isMounted, tasks', storage)
                  ELSE storage
    /\ isMounted' = isMounted
    /\ editors' = [id \in (DOMAIN editors) \cap Ids(tasks') |-> editors[id]]

Idle == [state |-> "idle", prompt |-> <<>>, closureTasks |-> <<>>]

Pending(prompt, closureTasks) ==
    [state |-> "pending", prompt |-> prompt, closureTasks |-> closureTasks]

NoRaw == RawOutcome("none", FALSE, <<>>, NoMsg, "", NoError)

NoLast ==
    [op |-> "none", prompt |-> <<>>, raw |-> NoRaw, result |-> Rejected,
     before |-> <<>>, closure |-> <<>>]

Init ==
    /\ tasks = <<>>
    /\ nextId = 1
    /\ aiMessage = NoMsg
    /\ toast = NoToast
    /\ isFormProcessing = FALSE
    /\ request = Idle
    /\ taskForInsight = NoTask
    /\ insightData = NoInsight
    /\ isLoadingInsight = FALSE
    /\ isInsightDialogOpen = FALSE
    /\ insightReqs = <<>>
    /\ storage = Removed
    /\ isMounted = FALSE
    /\ editors = <<>>
    /\ promptField = <<>>
    /\ last = NoLast

\* The effects of startup, which run before any handler can: the load effect
\* and the persist effect of the first render, then the persist effect of
\* the render they cause
Mount ==
    /\ promptField' = promptField
    /\ ~isMounted
    /\ LET loaded == LoadEffect(storage, nextId) IN
        /\ loaded.nextId <= MaxId + 1
        /\ tasks' = IF loaded.set THEN loaded.tasks ELSE tasks
        /\ nextId' = loaded.nextId
        /\ storage' = StartupStorage(storage, tasks, nextId)[Len(StartupStorage(storage, tasks, nextId))]
        /\ last' = [op |-> "mount", prompt |-> <<>>, raw |-> storage,
                    result |-> loaded, before |-> tasks, closure |-> <<>>]
    /\ isMounted' = TRUE
    /\ UNCHANGED <<aiMessage, toast, isFormProcessing, request, insightVars, insightReqs,
                   editors>>

\* onSubmit as it would run were the button not disabled while processing
SubmitWhileProcessing(prompt) ==
    /\ isMounted
    /\ Len(prompt) >= MinPromptLen
    /\ promptField' = prompt
    /\ isFormProcessing' = TRUE
    /\ request' = Pending(prompt, tasks)
    /\ last' = NoLast
    /\ UNCHANGED <<mirrorVars, tasks, nextId, aiMessage, toast, insightVars, insightReqs>>

\* onSubmit as it would run were the prompt not validated against the schema
SubmitAnyLength(prompt) ==
    /\ isMounted
    /\ ~isFormProcessing
    /\ request.state = "idle"
    /\ promptField' = prompt
    /\ isFormProcessing' = TRUE
    /\ request' = Pending(prompt, tasks)
    /\ last' = NoLast
    /\ UNCHANGED <<mirrorVars, tasks, nextId, aiMessage, toast, insightVars, insightReqs>>

\* form.handleSubmit(onSubmit) with a field the schema rejects: the resolver
\* reports "Prompt must be at least 10 characters." and onSubmit is not called
SubmitInvalid(prompt) ==
    /\ isMounted
    /\ ~isFormProcessing
    /\ Len(prompt) < MinPromptLen
    /\ promptField' = prompt
    /\ last' = NoLast
    /\ UNCHANGED <<mirrorVars, tasks, nextId, aiMessage, toast, isFormProcessing, request,
                   insightVars, insightReqs>>

\* TaskForm.onSubmit up to its await: the field holds `prompt`, the submit
\* button is enabled and the prompt passes the form schema
Submit(prompt) ==
    /\ isMounted
    /\ ~isFormProcessing
    /\ request.state = "idle"
    /\ Len(prompt) >= MinPromptLen
    /\ promptField' = prompt
    /\ isFormProcessing' = TRUE
    /\ request' = Pending(prompt, tasks)
    /\ last' = NoLast
    /\ UNCHANGED <<mirrorVars, tasks, nextId, aiMessage, toast, insightVars, insightReqs>>

\* TaskForm.onSubmit from its await on: createTasklist settles with the
\* result computed from `raw`; onListCreated(result), or the catch; finally
SubmitSettle(outcomes) ==
    /\ request.state = "pending"
    /\ \E raw \in outcomes :
        LET result == createTasklist(request.prompt, raw)
            applied == handleListCreated(result, request.closureTasks, tasks, nextId)
        IN  /\ IF result.threw
               THEN UNCHANGED <<tasks, nextId, aiMessage, toast>>
               ELSE /\ applied.nextId <= MaxId + 1
                    /\ tasks' = applied.tasks
                    /\ nextId' = applied.nextId
                    /\ aiMessage' = applied.aiMessage
                    /\ toast' = applied.toast
            /\ promptField' = IF result.threw THEN promptField ELSE <<>>
            /\ last' = [op |-> "submit", prompt |-> request.prompt, raw |-> raw,
                        result |-> result, before |-> tasks,
                        closure |-> request.closureTasks]
    /\ isFormProcessing' = FALSE
    /\ request' = Idle
    /\ AfterSetTasks
    /\ UNCHANGED <<insightVars, insightReqs>>

\* Header onClearList: the button is rendered when the list is not empty
HeaderClear ==
    /\ promptField' = promptField
    /\ Len(tasks) > 0
    /\ LET data == FlowResult(<<>>,
                              IF Len(tasks) > 0
                              THEN Text("Okay, I've cleared all tasks from your list.")
                              ELSE Text("Your list is already empty."),
                              "clear_all_tasks")
           applied == handleListCreated(data, tasks, tasks, nextId)
       IN  /\ tasks' = applied.tasks
           /\ nextId' = applied.nextId
           /\ aiMessage' = applied.aiMessage
           /\ toast' = applied.toast
           /\ last' = [op |-> "header", prompt |-> <<>>, raw |-> NoRaw, result |-> data,
                       before |-> tasks, closure |-> tasks]
    /\ AfterSetTasks
    /\ UNCHANGED <<isFormProcessing, request, insightVars, insightReqs>>

\* handleToggleComplete(id) of a rendered task; `ran` tells whether the
\* updater passed to setTasks had run when the handler chose its toast
ToggleComplete(i, ran) ==
    /\ promptField' = promptField
    /\ i \in DOMAIN tasks
    /\ tasks' = ToggledTasks(tasks, tasks[i].id)
    /\ toast' = IF ran /\ tasks[i].text # <<>>
                THEN Toast(IF ~tasks[i].completed THEN "Task completed!"
                           ELSE "Task marked incomplete",
                           Msg("\"${task}\" state updated.", <<tasks[i].text>>, <<>>))
                ELSE Toast("Error", Text("Could not find the task to toggle."))
    /\ last' = NoLast
    /\ AfterSetTasks
    /\ UNCHANGED <<nextId, aiMessage, isFormProcessing, request, insightVars, insightReqs>>

\* handleDeleteTask(id) of a rendered task
DeleteTask(i, ran) ==
    /\ promptField' = promptField
    /\ i \in DOMAIN tasks
    /\ tasks' = FilteredTasks(tasks, tasks[i].id)
    /\ toast' = IF ran /\ tasks[i].text # <<>>
                THEN Toast("Task deleted",
                           Msg("\"${task}\" has been removed.", <<tasks[i].text>>, <<>>))
                ELSE Toast("Error", Text("Could not find the task to delete."))
    /\ last' = NoLast
    /\ AfterSetTasks
    /\ UNCHANGED <<nextId, aiMessage, isFormProcessing, request, insightVars, insightReqs>>

\* TaskItemDisplay.handleSave with an accepted text, then handleUpdateTaskText
UpdateTaskText(i, editText, ran) ==
    /\ promptField' = promptField
    /\ i \in DOMAIN tasks
    /\ Trim(editText) # <<>>
    /\ Trim(editText) # tasks[i].text
    /\ tasks' = UpdatedTasks(tasks, tasks[i].id, Trim(editText))
    /\ toast' = IF ran /\ tasks[i].text # <<>>
                THEN Toast("Task updated!",
                           Msg("\"${task}\" changed to \"${task}\".",
                               <<tasks[i].text, Trim(editText)>>, <<>>))
                ELSE Toast("Task updated!",
                           Msg("A task was updated to \"${task}\".", <<Trim(editText)>>, <<>>))
    /\ last' = NoLast
    /\ AfterSetTasks
    /\ UNCHANGED <<nextId, aiMessage, isFormProcessing, request, insightVars, insightReqs>>

\* setIsEditing(false) of the item of task `id`; out of edit mode the sync
\* effect keeps editText equal to task.text
LeaveEditMode(id) == [x \in (DOMAIN editors) \ {id} |-> editors[x]]

\* TaskItemDisplay.handleLabelClick of an item that is not in edit mode (the
\* text of the item, or its Edit button)
handleLabelClick(i) ==
    /\ promptField' = promptField
    /\ i \in DOMAIN tasks
    /\ tasks[i].id \notin DOMAIN editors
    /\ IF ~tasks[i].completed
       THEN /\ editors' = (tasks[i].id :> tasks[i].text) @@ editors
            /\ toast' = toast
       ELSE /\ editors' = editors
            /\ toast' = Toast("Cannot edit completed task",
                              Text("Mark the task as incomplete to edit its text."))
    /\ last' = NoLast
    /\ UNCHANGED <<tasks, nextId, aiMessage, isFormProcessing, request, insightVars,
                   insightReqs, storage, isMounted>>

\* the input's onChange: setEditText(e.target.value)
ChangeEditText(i, text) ==
    /\ promptField' = promptField
    /\ i \in DOMAIN tasks
    /\ tasks[i].id \in DOMAIN editors
    /\ editors' = [editors EXCEPT ![tasks[i].id] = text]
    /\ last' = NoLast
    /\ UNCHANGED <<tasks, nextId, aiMessage, toast, isFormProcessing, request, insightVars,
                   insightReqs, storage, isMounted>>

\* handleSave as it was before it kept the item in edit mode: an empty text
\* puts the task's text back and leaves edit mode
handleSaveResetting(i, ran) ==
    /\ promptField' = promptField
    /\ i \in DOMAIN tasks
    /\ tasks[i].id \in DOMAIN editors
    /\ LET editText == editors[tasks[i].id] IN
        /\ Trim(editText) = <<>>
        /\ toast' = Toast("Task cannot be empty",
                          Text("Please enter some text for your task."))
        /\ editors' = LeaveEditMode(tasks[i].id)
        /\ last' = [op |-> "save", prompt |-> editText, raw |-> NoRaw,
                    result |-> tasks[i], before |-> tasks, closure |-> <<>>]
    /\ UNCHANGED <<tasks, nextId, aiMessage, isFormProcessing, request, insightVars,
                   insightReqs, storage, isMounted>>

\* TaskItemDisplay.handleSave of an item in edit mode (Enter, the Save
\* button, or the input losing focus), with handleUpdateTaskText when it
\* calls onUpdateText
handleSave(i, ran) ==
    /\ promptField' = promptField
    /\ i \in DOMAIN tasks
    /\ tasks[i].id \in DOMAIN editors
    /\ LET editText == editors[tasks[i].id]
           trimmedText == Trim(editText)
       IN  /\ IF trimmedText = <<>>
              THEN /\ toast' = Toast("Task cannot be empty",
                                     Text("Please enter some text for your task."))
                   /\ UNCHANGED <<tasks, mirrorVars>>
              ELSE IF trimmedText # tasks[i].text
              THEN /\ tasks' = UpdatedTasks(tasks, tasks[i].id, trimmedText)
                   /\ toast' = IF ran /\ tasks[i].text # <<>>
                               THEN Toast("Task updated!",
                                          Msg("\"${task}\" changed to \"${task}\".",
                                              <<tasks[i].text, trimmedText>>, <<>>))
                               ELSE Toast("Task updated!",
                                          Msg("A task was updated to \"${task}\".",
                                              <<trimmedText>>, <<>>))
                   /\ storage' = PersistEffect(isMounted, tasks', storage)
                   /\ isMounted' = isMounted
                   /\ editors' = LeaveEditMode(tasks[i].id)
              ELSE /\ editors' = LeaveEditMode(tasks[i].id)
                   /\ UNCHANGED <<tasks, toast, storage, isMounted>>
           /\ last' = [op |-> "save", prompt |-> editText, raw |-> NoRaw,
                       result |-> tasks[i], before |-> tasks, closure |-> <<>>]
    /\ UNCHANGED <<nextId, aiMessage, isFormProcessing, request, insightVars, insightReqs>>

\* TaskItemDisplay.handleCancelEdit (Escape, or the Cancel button)
handleCancelEdit(i) ==
    /\ promptField' = promptField
    /\ i \in DOMAIN tasks
    /\ tasks[i].id \in DOMAIN editors
    /\ editors' = LeaveEditMode(tasks[i].id)
    /\ last' = NoLast
    /\ UNCHANGED <<tasks, nextId, aiMessage, toast, isFormProcessing, request, insightVars,
                   insightReqs, storage, isMounted>>

\* handleGetTaskInsight(task) up to its await, with fewer than `n` insight
\* requests in flight
GetTaskInsightUpTo(i, n) ==
    /\ promptField' = promptField
    /\ i \in DOMAIN tasks
    /\ Len(insightReqs) < n
    /\ tasks[i].id # 0
    /\ taskForInsight' = tasks[i]
    /\ isInsightDialogOpen' = TRUE
    /\ isLoadingInsight' = TRUE
    /\ insightData' = NoInsight
    /\ insightReqs' = Append(insightReqs, tasks[i])
    /\ last' = NoLast
    /\ UNCHANGED <<mirrorVars, tasks, nextId, aiMessage, toast, isFormProcessing, request>>

GetTaskInsight(i) == GetTaskInsightUpTo(i, MaxInsightReqs)

RemoveAt(seq, k) == SubSeq(seq, 1, k - 1) \o SubSeq(seq, k + 1, Len(seq))

\* handleGetTaskInsight from its await on, for the k-th request in flight,
\* provideTaskInsight meeting one of `outcomes`
InsightSettleWith(k, outcomes) ==
    /\ promptField' = promptField
    /\ k \in DOMAIN insightReqs
    /\ \E outcome \in outcomes :
        LET result == provideTaskInsight(outcome) IN
        /\ IF result.threw
           THEN /\ insightData' = NoInsight
                /\ toast' = IF result.error.hasMessage
                               /\ Includes(result.error.message,
                                           <<"A","I"," ","s","e","r","v","i","c","e">>)
                            THEN toast
                            ELSE Toast("Error fetching insight",
                                       Text("Could not retrieve AI insights for this task. Please try again."))
           ELSE /\ insightData' = result.value
                /\ toast' = toast
        /\ last' = [op |-> "insight", prompt |-> insightReqs[k].text, raw |-> outcome,
                    result |-> result, before |-> tasks, closure |-> <<>>]
    /\ isLoadingInsight' = FALSE
    /\ insightReqs' = RemoveAt(insightReqs, k)
    /\ UNCHANGED <<mirrorVars, tasks, nextId, aiMessage, isFormProcessing, request, taskForInsight,
                   isInsightDialogOpen>>

InsightSettle(k) == InsightSettleWith(k, InsightOutcomes)

\* TaskInsightDialog.handleAddSubTasks, then handleAddSubTasksToList
AddSubTasks ==
    /\ promptField' = promptField
    /\ isInsightDialogOpen
    /\ ~isLoadingInsight
    /\ ~insightData.isNull
    /\ insightData.hasSubTasks
    /\ Len(insightData.subTasks) > 0
    /\ taskForInsight.text # <<>>
    /\ nextId + Len(insightData.subTasks) <= MaxId + 1
    /\ tasks' = PrependTasks(SubTaskTexts(insightData.subTasks, taskForInsight.text),
                             tasks, nextId)
    /\ nextId' = nextId + Len(insightData.subTasks)
    /\ toast' = Toast("Sub-tasks added!",
                      Msg("${n} sub-task(s) related to \"${task}\" added to your list.",
                          <<taskForInsight.text>>, <<Len(insightData.subTasks)>>))
    /\ aiMessage' = Msg("${n} sub-task(s) related to \"${task}\" added to your list.",
                        <<taskForInsight.text>>, <<Len(insightData.subTasks)>>)
    /\ isInsightDialogOpen' = FALSE
    /\ last' = NoLast
    /\ AfterSetTasks
    /\ UNCHANGED <<isFormProcessing, request, taskForInsight, insightData,
                   isLoadingInsight, insightReqs>>

\* the dialog's onOpenChange(false)
CloseDialog ==
    /\ promptField' = promptField
    /\ isInsightDialogOpen
    /\ isInsightDialogOpen' = FALSE
    /\ last' = NoLast
    /\ UNCHANGED <<mirrorVars, tasks, nextId, aiMessage, toast, isFormProcessing, request,
                   taskForInsight, insightData, isLoadingInsight, insightReqs>>

\* the form, the header, and the checkbox and delete button of the task items
NextList ==
    \/ Mount
    \/ \E p \in Prompts : Submit(p)
    \/ SubmitSettle(Outcomes)
    \/ HeaderClear
    \/ \E i \in 1..MaxId, ran \in BOOLEAN : ToggleComplete(i, ran)
    \/ \E i \in 1..MaxId, ran \in BOOLEAN : DeleteTask(i, ran)

\* the form, used to add tasks, and the insight dialog
NextInsight ==
    \/ Mount
    \/ \E p \in Prompts : Submit(p)
    \/ SubmitSettle(AddOrFailOutcomes)
    \/ \E i \in 1..MaxId : GetTaskInsight(i)
    \/ \E k \in 1..MaxInsightReqs : InsightSettle(k)
    \/ AddSubTasks
    \/ CloseDialog

\* the form, used to add tasks, and the inline editor of the task items
NextEdit ==
    \/ Mount
    \/ \E p \in Prompts : Submit(p)
    \/ SubmitSettle(AddOrFailOutcomes)
    \/ \E i \in 1..MaxId, e \in EditInputs, ran \in BOOLEAN : UpdateTaskText(i, e, ran)
    \/ \E i \in 1..MaxId, ran \in BOOLEAN : DeleteTask(i, ran)

Next == NextList \/ NextInsight \/ NextEdit

\* The whole page.  Its state space is the product of those of the three
\* parts below, which are the ones explored.
Spec == Init /\ [][Next]_vars

SpecList == Init /\ [][NextList]_vars

SpecInsight == Init /\ [][NextInsight]_vars

SpecEdit == Init /\ [][NextEdit]_vars

\* the page before the effects of its first render, storage holding one of
\* `samples`
InitWith(samples) ==
    /\ tasks = <<>>
    /\ nextId = 1
    /\ aiMessage = NoMsg
    /\ toast = NoToast
    /\ isFormProcessing = FALSE
    /\ request = Idle
    /\ taskForInsight = NoTask
    /\ insightData = NoInsight
    /\ isLoadingInsight = FALSE
    /\ isInsightDialogOpen = FALSE
    /\ insightReqs = <<>>
    /\ storage \in samples
    /\ isMounted = FALSE
    /\ editors = <<>>
    /\ promptField = <<>>
    /\ last = NoLast

InitStartup == InitWith(StoredSamples)

\* startup over what storage may hold, then the form, the header, and the
\* checkbox and delete button of the task items
NextStartup ==
    \/ Mount
    \/ \E p \in Prompts : Submit(p)
    \/ SubmitSettle(StorageOutcomes)
    \/ HeaderClear
    \/ \E i \in 1..MaxId, ran \in BOOLEAN : ToggleComplete(i, ran)
    \/ \E i \in 1..MaxId, ran \in BOOLEAN : DeleteTask(i, ran)

SpecStartup == InitStartup /\ [][NextStartup]_vars

\* startup, the form, and the edit mode of the task items
NextEditor ==
    \/ Mount
    \/ \E p \in Prompts : Submit(p)
    \/ SubmitSettle(StorageOutcomes)
    \/ \E i \in 1..MaxId : handleLabelClick(i)
    \/ \E i \in 1..MaxId, text \in EditTexts : ChangeEditText(i, text)
    \/ \E i \in 1..MaxId, ran \in BOOLEAN : handleSave(i, ran)
    \/ \E i \in 1..MaxId : handleCancelEdit(i)

SpecEditor == Init /\ [][NextEditor]_vars

InitInFlight == InitWith(InFlightSamples)

\* startup on a stored list, the form, used to add tasks, and what a user
\* can do to the list meanwhile: edit, delete, add the sub-tasks of an insight
NextInFlight ==
    \/ Mount
    \/ \E p \in Prompts : Submit(p)
    \/ SubmitSettle(AddOutcomes)
    \/ \E i \in 1..MaxId, ran \in BOOLEAN : DeleteTask(i, ran)
    \/ \E i \in 1..MaxId, e \in EditInputs, ran \in BOOLEAN : UpdateTaskText(i, e, ran)
    \/ \E i \in 1..MaxId : GetTaskInsight(i)
    \/ \E k \in 1..MaxInsightReqs : InsightSettleWith(k, SubTaskOutcomes)
    \/ AddSubTasks

SpecInFlight == InitInFlight /\ [][NextInFlight]_vars

InitMirror == InitWith(MirrorSamples)

\* startup, then every handler that changes the list
NextMirror ==
    \/ Mount
    \/ \E p \in Prompts : Submit(p)
    \/ SubmitSettle(StorageOutcomes)
    \/ HeaderClear
    \/ \E i \in 1..MaxId, ran \in BOOLEAN : ToggleComplete(i, ran)
    \/ \E i \in 1..MaxId, ran \in BOOLEAN : DeleteTask(i, ran)
    \/ \E i \in 1..MaxId, e \in EditInputs, ran \in BOOLEAN : UpdateTaskText(i, e, ran)
    \/ \E i \in 1..MaxId : GetTaskInsight(i)
    \/ \E k \in 1..MaxInsightReqs : InsightSettleWith(k, SubTaskOutcomes)
    \/ AddSubTasks

SpecMirror == InitMirror /\ [][NextMirror]_vars

InitIds == InitWith(IdSamples)

\* startup on a stored array, then the form, the header, and the checkbox
\* and delete button of the task items
NextIds ==
    \/ Mount
    \/ \E p \in Prompts : Submit(p)
    \/ SubmitSettle(StorageOutcomes)
    \/ HeaderClear
    \/ \E i \in 1..MaxId, ran \in BOOLEAN : ToggleComplete(i, ran)
    \/ \E i \in 1..MaxId, ran \in BOOLEAN : DeleteTask(i, ran)

SpecIds == InitIds /\ [][NextIds]_vars

InitOverlap == InitWith(OverlapSamples)

\* startup on a stored list of two tasks and the insight dialog, which is
\* modal: while it is open the insight buttons of the list cannot be pressed,
\* and closing it leaves the request it was opened for in flight
NextOverlap ==
    \/ Mount
    \/ \E i \in 1..MaxId : ~isInsightDialogOpen /\ GetTaskInsightUpTo(i, MaxOverlap)
    \/ \E k \in 1..MaxOverlap : InsightSettle(k)
    \/ AddSubTasks
    \/ CloseDialog

SpecOverlap == InitOverlap /\ [][NextOverlap]_vars

\* the form submitted with any field, valid or not, and the list changed
\* meanwhile through the header and the checkboxes
NextForm ==
    \/ Mount
    \/ \E p \in FormPrompts : Submit(p)
    \/ \E p \in FormPrompts : SubmitInvalid(p)
    \/ SubmitSettle(AddOrFailOutcomes)
    \/ HeaderClear
    \/ \E i \in 1..MaxId, ran \in BOOLEAN : ToggleComplete(i, ran)

SpecForm == Init /\ [][NextForm]_vars

\* The createTasklist server action on its own: one call per prompt, meeting
\* every model outcome
InitFlow ==
    /\ tasks = <<>>
    /\ nextId = 1
    /\ aiMessage = NoMsg
    /\ toast = NoToast
    /\ isFormProcessing = TRUE
    /\ request \in {Pending(p, <<>>) : p \in FlowPrompts}
    /\ taskForInsight = NoTask
    /\ insightData = NoInsight
    /\ isLoadingInsight = FALSE
    /\ isInsightDialogOpen = FALSE
    /\ insightReqs = <<>>
    /\ storage = Stringify(<<>>)
    /\ isMounted = TRUE
    /\ editors = <<>>
    /\ promptField = request.prompt
    /\ last = NoLast

\* createTasklist(input) runs to its return value, which is kept in `last`
CreateTasklistCall ==
    /\ promptField' = promptField
    /\ request.state = "pending"
    /\ \E raw \in FlowOutcomes :
        last' = [op |-> "flow", prompt |-> request.prompt, raw |-> raw,
                 result |-> createTasklist(request.prompt, raw),
                 before |-> tasks, closure |-> request.closureTasks]
    /\ request' = Idle
    /\ UNCHANGED <<mirrorVars, tasks, nextId, aiMessage, toast, isFormProcessing, insightVars,
                   insightReqs>>

NextFlow == CreateTasklistCall

SpecFlow == InitFlow /\ [][NextFlow]_vars

-----------------------------------------------------------------------------
(* Properties of the createTasklist server action (SpecFlow) *)

CommandActions ==
    {"clear_all_tasks", "complete_all_tasks", "query_task_count",
     "no_action_conversational_reply"}

\* C1: whatever the model produced (any action, any taskList, reasoning
\* present or absent, no output, a failure), a result returned by
\* createTasklist whose action is clear_all_tasks, complete_all_tasks,
\* query_task_count or no_action_conversational_reply has an empty taskList.
C1_CommandResultHasEmptyTaskList ==
    (last.op = "flow" /\ ~last.result.threw /\ last.result.action \in CommandActions)
        => last.result.taskList = <<>>

\* a query_task_count output that carried tasks was returned without them
C1_Witness ==
    /\ last.op = "flow"
    /\ last.raw.kind = "output"
    /\ last.raw.action = "query_task_count"
    /\ last.raw.taskListIsArray
    /\ Len(last.raw.taskList) > 0
    /\ ~last.result.threw
    /\ last.result.action = "query_task_count"
    /\ last.result.taskList = <<>>

ApologeticTexts ==
    {"The AI service is currently overloaded or unavailable. Please try again in a little while.",
     "There seems to be an issue with the AI service configuration. Please contact support.",
     "The AI returned an unexpected response. I'll try to handle it, but you might want to rephrase your request.",
     "I'm having trouble connecting to the AI service right now. Please try again in a few moments."}

\* C2: when the model call inside the flow throws, with any error message or
\* none, createTasklist does not raise: it returns action add_tasks, an empty
\* taskList and a non-empty apologetic reasoning.
C2_FailureGivesApologeticAddResult ==
    (last.op = "flow" /\ last.raw.kind = "throws")
        => /\ ~last.result.threw
           /\ last.result.action = "add_tasks"
           /\ last.result.taskList = <<>>
           /\ last.result.reasoning.text # ""
           /\ last.result.reasoning.text \in ApologeticTexts

\* a call that failed with "Malformed JSON" returned the apologetic result
C2_Witness ==
    /\ last.op = "flow"
    /\ last.raw.kind = "throws"
    /\ last.raw.error.hasMessage
    /\ last.raw.error.message = <<"M","a","l","f","o","r","m","e","d"," ","J","S","O","N">>
    /\ ~last.result.threw
    /\ last.result.action = "add_tasks"
    /\ last.result.taskList = <<>>
    /\ last.result.reasoning.text
         = "The AI returned an unexpected response. I'll try to handle it, but you might want to rephrase your request."

\* "and" as a word of s, whatever its case
ContainsWordAnd(s) ==
    \E i \in 1..(Len(s) - 2) :
        /\ ToLowerCase(SubSeq(s, i, i + 2)) = <<"a","n","d">>
        /\ (i = 1 \/ ~IsWordChar(s[i - 1]))
        /\ (i + 2 = Len(s) \/ ~IsWordChar(s[i + 3]))

\* the prompt contains one of the tokens "and", ",", "plan", "list of"
ContainsListToken(s) ==
    \/ ContainsWordAnd(s)
    \/ Includes(ToLowerCase(s), <<",">>)
    \/ Includes(ToLowerCase(s), <<"p","l","a","n">>)
    \/ Includes(ToLowerCase(s), <<"l","i","s","t"," ","o","f">>)

AllEqualPromptFolded(taskList, prompt) ==
    \A i \in DOMAIN taskList : ToLowerCase(Trim(taskList[i])) = ToLowerCase(Trim(prompt))

AllEqualTrimmed(taskList) ==
    \A i, j \in DOMAIN taskList : Trim(taskList[i]) = Trim(taskList[j])

\* ["a", "b", "a"] for the prompt "buy a buy b" came back unchanged
C10_DistinctKept ==
    (/\ last.op = "flow"
     /\ last.prompt = PromptBuyAB
     /\ last.raw.kind = "output"
     /\ last.raw.taskListIsArray
     /\ last.raw.action \in {"add_tasks", ""}
     /\ last.raw.taskList = <<TextA, TextB, TextA>>)
        => last.result.taskList = <<TextA, TextB, TextA>>

\* C10: for an add_tasks output (action add_tasks or omitted) with more than
\* one entry, the returned list differs from the raw one only if all entries
\* equal the prompt after trimming and case-folding, or all entries are equal
\* after trimming and the prompt contains none of the tokens "and", ",",
\* "plan", "list of"; the returned list is then the trimmed first entry alone.
\* In every other case the raw list is returned as it is: ["a", "b", "a"] for
\* the prompt "buy a buy b" comes back unchanged.
C10_CollapseOnlyIdenticalEntries ==
    /\ C10_DistinctKept
    /\ (/\ last.op = "flow"
        /\ last.raw.kind = "output"
        /\ last.raw.action \in {"add_tasks", ""}
        /\ last.raw.taskListIsArray
        /\ Len(last.raw.taskList) > 1)
           => /\ ~last.result.threw
              /\ \/ last.result.taskList = last.raw.taskList
                 \/ /\ \/ AllEqualPromptFolded(last.raw.taskList, last.prompt)
                       \/ /\ AllEqualTrimmed(last.raw.taskList)
                          /\ ~ContainsListToken(last.prompt)
                    /\ last.result.taskList = <<Trim(last.raw.taskList[1])>>

\* [" a", "a"] for the prompt "buy a buy b" came back as ["a"]
C10_Witness ==
    /\ last.op = "flow"
    /\ last.prompt = PromptBuyAB
    /\ last.raw.kind = "output"
    /\ last.raw.action = ""
    /\ last.raw.taskListIsArray
    /\ last.raw.taskList = <<TextPaddedA, TextA>>
    /\ ~last.result.threw
    /\ last.result.taskList = <<TextA>>

-----------------------------------------------------------------------------
(* Properties of the page (SpecList, SpecInsight) *)

\* the last step handled a result of the classifier with the given action
AppliedAction(action) ==
    /\ last.op = "submit"
    /\ ~last.result.threw
    /\ last.result.action = action

FailureKinds == {"null", "throws", "rejects"}

\* C3: once a failed classifier request or a failed insight request has been
\* handled, the list (ids, texts, completed flags, order) is what it was
\* immediately before the failure was handled.
C3_FailureKeepsTaskList ==
    (last.op \in {"submit", "insight"} /\ last.raw.kind \in FailureKinds)
        => tasks = last.before

\* an insight request was rejected on a non-empty list that had already
\* survived a failed classifier request
C3_Witness ==
    /\ last.op = "insight"
    /\ last.raw.kind = "rejects"
    /\ tasks # <<>>
    /\ tasks = last.before
    /\ aiMessage.text \in ApologeticTexts
    /\ toast.title = "Error fetching insight"

ApologeticNotes ==
    {"AI could not provide specific insights for this task at the moment.",
     "I'm having trouble connecting to the AI service for insights. Please try again in a few moments."}

\* C4 as stated: when the model is unreachable or returns no output,
\* provideTaskInsight does not raise and every one of the three fields is
\* "Not available" or an apologetic note, with subTasks empty.
C4_AsStated ==
    (last.op = "insight" /\ last.raw.kind \in {"null", "throws"})
        => /\ ~last.result.threw
           /\ ~last.result.value.isNull
           /\ last.result.value.estimatedTimeToComplete \in {"Not available"} \cup ApologeticNotes
           /\ last.result.value.potentialDependencies \in {"Not available"} \cup ApologeticNotes
           /\ last.result.value.additionalNotes \in {"Not available"} \cup ApologeticNotes
           /\ last.result.value.hasSubTasks
           /\ last.result.value.subTasks = <<>>

\* C4: when the model is unreachable or returns no output, provideTaskInsight
\* does not raise; estimatedTimeToComplete and potentialDependencies are both
\* "Not available" (no output) or both "Error" (the model call failed),
\* additionalNotes is an apologetic note and subTasks is the empty list.
C4_DegradedInsight ==
    (last.op = "insight" /\ last.raw.kind \in {"null", "throws"})
        => /\ ~last.result.threw
           /\ ~last.result.value.isNull
           /\ last.result.value.estimatedTimeToComplete
                = (IF last.raw.kind = "null" THEN "Not available" ELSE "Error")
           /\ last.result.value.potentialDependencies
                = (IF last.raw.kind = "null" THEN "Not available" ELSE "Error")
           /\ last.result.value.additionalNotes \in ApologeticNotes
           /\ last.result.value.hasSubTasks
           /\ last.result.value.subTasks = <<>>

\* the model call of an insight request failed and the dialog received the
\* degraded result
C4_Witness ==
    /\ last.op = "insight"
    /\ last.raw.kind = "throws"
    /\ ~last.result.threw
    /\ last.result.value.estimatedTimeToComplete = "Error"
    /\ last.result.value.subTasks = <<>>
    /\ insightData = last.result.value
    /\ ~isLoadingInsight

\* C5: applying an add_tasks result with the strings s1..sn (n >= 1) to a
\* list L yields [t1..tn] followed by L, with ti.text = si, ti.completed =
\* FALSE, every ti.id different from the ids of L and from the other tj.id,
\* and every task of L kept as it was, in the same order.
C5_AddPrependsFreshTasks ==
    (AppliedAction("add_tasks") /\ Len(last.result.taskList) >= 1)
        => LET s == last.result.taskList
               n == Len(s)
               L == last.before
           IN  /\ Len(tasks) = n + Len(L)
               /\ \A i \in 1..n :
                    /\ tasks[i].text = s[i]
                    /\ tasks[i].completed = FALSE
                    /\ tasks[i].id \notin Ids(L)
                    /\ \A j \in 1..n : j # i => tasks[j].id # tasks[i].id
               /\ \A j \in 1..Len(L) : tasks[n + j] = L[j]

\* "Buy milk" was added in front of a list that already held a task
C5_Witness ==
    /\ AppliedAction("add_tasks")
    /\ last.result.taskList = <<BuyMilk>>
    /\ Len(last.before) = 1
    /\ Len(tasks) = 2
    /\ tasks[1].text = BuyMilk
    /\ ~tasks[1].completed
    /\ tasks[2] = last.before[1]

\* C6: whenever a clear_all_tasks result is applied the list is empty
\* afterwards, the feedback is "cleared" exactly when the list was non-empty
\* at the moment the result was applied and "already empty" exactly when it
\* was empty at that moment, also when the user changed the list while the
\* request was in flight.
C6_ClearFeedbackMatchesList ==
    ((AppliedAction("clear_all_tasks") \/ last.op = "header")
        => /\ tasks = <<>>
           /\ (toast.title = "List Cleared") <=> (last.before # <<>>)
           /\ (toast.title = "List is already empty") <=> (last.before = <<>>))

\* C7: whenever a complete_all_tasks result is applied to a list that at
\* that moment holds a task with completed = FALSE, every task is completed
\* afterwards and the feedback is "completed"; when the list at that moment
\* is empty or all complete, it is unchanged and the feedback is the
\* "list empty" resp. "already all done" message, also when the user changed
\* the list while the request was in flight.
C7_CompleteFeedbackMatchesList ==
    AppliedAction("complete_all_tasks")
        => IF last.before = <<>>
           THEN tasks = last.before /\ toast.title = "No tasks to complete"
           ELSE IF AllCompleted(last.before)
           THEN tasks = last.before /\ toast.title = "All tasks already completed"
           ELSE /\ AllCompleted(tasks)
                /\ Len(tasks) = Len(last.before)
                /\ toast.title = "All Tasks Completed!"

\* C8: a raw output whose action is query_task_count or
\* no_action_conversational_reply, with or without a taskList, leaves the
\* list as it was once it has been normalized and applied.
C8_ReadOnlyActionsKeepTaskList ==
    (/\ last.op = "submit"
     /\ last.raw.kind = "output"
     /\ last.raw.action \in {"query_task_count", "no_action_conversational_reply"})
        => tasks = last.before

\* a conversational reply that carried two tasks was applied to a non-empty
\* list
C8_Witness ==
    /\ last.op = "submit"
    /\ last.raw.kind = "output"
    /\ last.raw.action = "no_action_conversational_reply"
    /\ last.raw.taskListIsArray
    /\ last.raw.taskList = <<BuyMilk, TextB>>
    /\ last.before # <<>>
    /\ tasks = last.before

CompletedCount(list) == Cardinality({i \in DOMAIN list : list[i].completed})

\* C9: when a query_task_count result is applied, the message shown states
\* the total, completed and remaining counts of the list as it is at that
\* moment.
C9_QueryMessageStatesCounts ==
    AppliedAction("query_task_count")
        => LET counts == <<Len(last.before), CompletedCount(last.before),
                           Len(last.before) - CompletedCount(last.before)>>
           IN  /\ aiMessage.nums = counts
               /\ toast.description.nums = counts

-----------------------------------------------------------------------------
(* Further properties of the createTasklist server action (SpecFlow) *)

C12_DefaultReasoningPerAction ==
    (/\ last.op = "flow"
     /\ last.raw.kind = "output"
     /\ last.raw.action \in CommandActions
     /\ last.raw.reasoning = NoMsg)
        => last.result.reasoning
             = createTasklist(last.prompt,
                              RawOutcome("output", TRUE, <<>>, NoMsg, last.raw.action,
                                         NoError)).reasoning

-----------------------------------------------------------------------------
(* Further properties of the page *)

\* C13: every task string that an add_tasks response puts on the list is
\* trimmed of surrounding whitespace, is non-empty, starts with a capitalized
\* first letter and occurs only once among the strings added by that
\* response.
C13_AddedTextsAreNormalized ==
    AppliedAction("add_tasks")
        => LET n == Len(tasks) - Len(last.before) IN
           \A i \in 1..n :
               /\ tasks[i].text = Trim(tasks[i].text)
               /\ tasks[i].text # <<>>
               /\ ~IsLower(tasks[i].text[1])
               /\ \A j \in 1..n : j # i => tasks[j].text # tasks[i].text

(* Local storage *)

\* C14: once startup has completed, storage holds the serialization of
\* exactly the current list after every handler that changes the list (add,
\* sub-task add, toggle, delete, edit, clear, complete-all), and the load
\* effect, the only reader of storage, never runs again
C14_StorageMirrorsList ==
    /\ [](isMounted => storage = Stringify(tasks))
    /\ [][isMounted => last'.op # "mount"]_vars

C14_Witness ==
    /\ isMounted
    /\ toast.title = "Sub-tasks added!"
    /\ Len(tasks) = 2
    /\ storage = Stringify(tasks)
    /\ storage.items[2].id = tasks[2].id
    /\ storage.items[2].text = TextA

\* C15: when startup finds no entry, an empty entry, text that does not
\* parse, or JSON that is not an array, the list starts empty and storage is
\* left holding the serialization of the empty list; what the bad entry was
\* made of is in neither the list nor storage from then on
C15_BadStorageStartsEmpty ==
    /\ (last.op = "mount" /\ last.raw.kind # "array")
           => /\ tasks = <<>>
              /\ storage = Stringify(<<>>)
    /\ \A i \in DOMAIN tasks : tasks[i].id # JunkItem.id
    /\ isMounted => /\ storage.kind = "array"
                    /\ \A i \in DOMAIN storage.items : storage.items[i] # JunkItem

C15_Witness ==
    /\ last.op = "mount"
    /\ last.raw = Stored("other", <<JunkItem>>)
    /\ tasks = <<>>
    /\ storage = Stringify(<<>>)
(* The inline editor of a task item *)

\* C16: saving an edit whose text is empty after trimming changes neither
\* the list nor storage and issues no request; the item stays in edit mode
\* and its input keeps what the user typed
C16_EmptyEditRejectedLocally ==
    [][(last'.op = "save" /\ Trim(last'.prompt) = <<>>)
          => /\ tasks' = tasks
             /\ storage' = storage
             /\ request' = request
             /\ insightReqs' = insightReqs
             /\ last'.result.id \in DOMAIN editors'
             /\ editors'[last'.result.id] = last'.prompt
             /\ toast'.title = "Task cannot be empty"]_vars

C16_Witness ==
    /\ last.op = "save"
    /\ last.prompt = <<" ">>
    /\ last.result.id \in DOMAIN editors
    /\ editors[last.result.id] = <<" ">>
    /\ tasks = last.before
    /\ tasks # <<>>
    /\ toast.title = "Task cannot be empty"
(* Failures and requests in flight *)

\* the alert of the page is rendered: aiMessage && !isFormProcessing
AlertVisible == aiMessage # NoMsg /\ ~isFormProcessing

\* the dialog is open and shows the insight, or its text for no insight
InsightTextVisible == isInsightDialogOpen /\ ~isLoadingInsight

\* C17: once a failed classifier request (the model call failing inside the
\* flow, or the createTasklist call itself rejecting) or a failed insight
\* request has been handled, the user is shown a non-empty message: the
\* alert, a toast, or the text of the insight dialog
C17_FailureShowsMessage ==
    /\ (last.op = "submit" /\ last.raw.kind \in FailureKinds)
           => (AlertVisible \/ toast # NoToast)
    /\ (last.op = "insight" /\ last.raw.kind \in FailureKinds)
           => (InsightTextVisible \/ toast # NoToast)
\* C18: an add_tasks response is applied to the list as it is when the
\* response resolves, whatever the list was when the request was issued: its
\* tasks are put in front of that list, so what the user toggled, deleted,
\* edited or added as sub-tasks while the request was in flight is all there
C18_ResponseAppliedToCurrentList ==
    AppliedAction("add_tasks")
        => LET n == Len(last.result.taskList) IN
           /\ Len(tasks) = n + Len(last.before)
           /\ \A i \in 1..n : tasks[i].text = last.result.taskList[i]
           /\ \A i \in DOMAIN last.before : tasks[n + i] = last.before[i]

\* the list the response was applied to differs from the one the request
\* was issued on by a sub-task and an edited text
C18_Witness ==
    /\ AppliedAction("add_tasks")
    /\ Len(last.closure) = 1
    /\ Len(last.before) = 2
    /\ Len(tasks) = 3
    /\ \E i, j \in DOMAIN last.before :
          /\ last.before[i].id = last.closure[1].id
          /\ last.before[i].text = <<"c">>
          /\ last.before[i].text # last.closure[1].text
          /\ tasks[i + 1] = last.before[i]
          /\ last.before[j].id \notin Ids(last.closure)
          /\ tasks[j + 1] = last.before[j]

\* every rendered task can be toggled and deleted, and edited unless it is
\* completed, the list can be cleared, and each of these changes the list in
\* the step that takes it
ListMutationsEnabled ==
    /\ tasks # <<>> => ENABLED (HeaderClear /\ tasks' = <<>>)
    /\ \A i \in (DOMAIN tasks) \cap (1..MaxId) :
          /\ ENABLED (ToggleComplete(i, TRUE) /\ tasks'[i].completed # tasks[i].completed)
          /\ ENABLED (DeleteTask(i, TRUE) /\ Len(tasks') < Len(tasks))
          /\ (~tasks[i].completed /\ tasks[i].text # <<"c">>)
                => ENABLED (UpdateTaskText(i, <<"c", " ">>, TRUE) /\ tasks'[i].text = <<"c">>)

\* C19: while a classifier request is in flight the form cannot be
\* submitted, but tasks can be toggled, deleted and edited, the list cleared
\* and an insight requested, each taking effect at once; while an insight
\* request is in flight the same changes to the list can be made and the
\* form can be submitted
C19_OnlySubmitSuspended ==
    /\ request.state = "pending"
          => /\ \A p \in Prompts : ~ENABLED Submit(p)
             /\ ListMutationsEnabled
             /\ \A i \in (DOMAIN tasks) \cap (1..MaxId) :
                   Len(insightReqs) < MaxInsightReqs => ENABLED GetTaskInsight(i)
    /\ insightReqs # <<>>
          => /\ ListMutationsEnabled
             /\ request.state = "idle" => \A p \in Prompts : ENABLED Submit(p)

\* both kinds of request are in flight on a list with a task in it
C19_Witness ==
    /\ request.state = "pending"
    /\ insightReqs # <<>>
    /\ tasks # <<>>
    /\ tasks # request.closureTasks

(* Idempotence of clear and complete-all *)

\* the toasts of an application of clear_all_tasks and of complete_all_tasks;
\* every other handler that changes the list raises a toast of its own, so
\* one of these still showing tells that nothing has changed the list since
ClearTitles == {"List Cleared", "List is already empty"}

CompleteTitles ==
    {"All Tasks Completed!", "No tasks to complete", "All tasks already completed"}

\* C20: when clear_all_tasks is applied right after an application of
\* clear_all_tasks, or complete_all_tasks right after an application of
\* complete_all_tasks, the second application leaves the list as the first
\* one left it and reports that there was nothing to do
C20_SecondApplicationIsNoOp ==
    [][/\ (toast.title \in ClearTitles /\ last'.op = "submit" /\ ~last'.result.threw
             /\ last'.result.action = "clear_all_tasks")
            => (tasks' = tasks /\ tasks' = <<>> /\ toast'.title = "List is already empty")
       /\ (toast.title \in CompleteTitles /\ last'.op = "submit" /\ ~last'.result.threw
             /\ last'.result.action = "complete_all_tasks")
            => (tasks' = tasks
                /\ toast'.title \in {"No tasks to complete", "All tasks already completed"})]_vars

(* Frame of toggle, delete and edit *)

\* ids that no task of the list has
AbsentIds == (0..(MaxId + 1)) \ Ids(tasks)

\* C22: a step that toggles the task at position i flips the completed flag
\* of that task and changes nothing else: its id and text, the other tasks,
\* the length and the order stay; toggling the same id again gives the list
\* back; toggling an id that no task has leaves the list as it is
C22_ToggleFlipsOneFlag ==
    [][\A i \in DOMAIN tasks, ran \in BOOLEAN :
          ToggleComplete(i, ran)
            => /\ Len(tasks') = Len(tasks)
               /\ tasks'[i].completed = ~tasks[i].completed
               /\ tasks'[i].id = tasks[i].id
               /\ tasks'[i].text = tasks[i].text
               /\ \A j \in (DOMAIN tasks) \ {i} : tasks'[j] = tasks[j]
               /\ ToggledTasks(tasks', tasks[i].id) = tasks
               /\ \A id \in AbsentIds : ToggledTasks(tasks, id) = tasks]_vars

\* the second of two completed tasks was toggled back
C22_Witness ==
    /\ toast.title = "Task marked incomplete"
    /\ Len(tasks) = 2
    /\ tasks[1].completed
    /\ ~tasks[2].completed

\* C23: a step that deletes the task at position i removes the tasks that
\* have its id and nothing else: the tasks left are the others, each as it
\* was and in the order they had; deleting an id that no task has leaves the
\* list as it is
C23_DeleteRemovesOneId ==
    [][\A i \in DOMAIN tasks, ran \in BOOLEAN :
          DeleteTask(i, ran)
            => /\ Len(tasks') = Len(tasks) - 1
               /\ \A j \in 1..(i - 1) : tasks'[j] = tasks[j]
               /\ \A j \in (i + 1)..Len(tasks) : tasks'[j - 1] = tasks[j]
               /\ tasks[i].id \notin Ids(tasks')
               /\ \A id \in AbsentIds : FilteredTasks(tasks, id) = tasks]_vars

\* the first of two tasks was deleted and the second is what is left
C23_Witness ==
    /\ toast.title = "Task deleted"
    /\ toast.description.args = <<BuyMilk>>
    /\ Len(tasks) = 1
    /\ tasks[1].text = TextB
    /\ tasks[1].id # 0

\* C24: a save of the item at position i changes at most the text of that
\* task: its id, completed flag and position and every other task stay; a save
\* whose trimmed text is the task's text changes nothing (no list update, no
\* write, no toast); a text that a save stores is the trimmed edit text, which
\* is not empty and has no blank at either end
C24_SaveChangesOnlyThatText ==
    [][\A i \in DOMAIN tasks, ran \in BOOLEAN :
          handleSave(i, ran)
            => LET trimmedText == Trim(editors[tasks[i].id]) IN
               /\ Len(tasks') = Len(tasks)
               /\ tasks'[i].id = tasks[i].id
               /\ tasks'[i].completed = tasks[i].completed
               /\ \A j \in (DOMAIN tasks) \ {i} : tasks'[j] = tasks[j]
               /\ trimmedText = tasks[i].text
                    => /\ tasks' = tasks
                       /\ storage' = storage
                       /\ toast' = toast
               /\ tasks'[i].text # tasks[i].text
                    => /\ tasks'[i].text = trimmedText
                       /\ trimmedText # <<>>
                       /\ Head(trimmedText) # " "
                       /\ trimmedText[Len(trimmedText)] # " "
                       /\ storage' = Stringify(tasks')]_vars

\* the second of two tasks was saved with "c " in its editor and holds "c"
C24_Witness ==
    /\ last.op = "save"
    /\ last.prompt = <<"c", " ">>
    /\ toast.title = "Task updated!"
    /\ Len(tasks) = 2
    /\ \E i, j \in DOMAIN tasks :
          /\ tasks[i].id = last.result.id
          /\ tasks[i].text = <<"c">>
          /\ tasks[j].text = BuyMilk

-----------------------------------------------------------------------------
(* The form (SpecForm) *)

\* C25: the classifier is only ever asked about a prompt of at least 10
\* characters, and submitting the form with a shorter field starts no request,
\* does not set the busy flag and leaves the list and the assistant message
\* as they are
C25_ShortPromptRejectedLocally ==
    /\ [](request.state = "pending" => Len(request.prompt) >= MinPromptLen)
    /\ [](last.op = "submit" => Len(last.prompt) >= MinPromptLen)
    /\ [][\A p \in FormPrompts :
            (Len(p) < MinPromptLen /\ (Submit(p) \/ SubmitInvalid(p)))
              => /\ request' = request
                 /\ request'.state = "idle"
                 /\ ~isFormProcessing'
                 /\ tasks' = tasks
                 /\ aiMessage' = aiMessage
                 /\ storage' = storage]_vars

\* a field of nine characters was submitted over a list that has a task
C25_Witness ==
    /\ promptField = PromptNine
    /\ last.op = "none"
    /\ request.state = "idle"
    /\ ~isFormProcessing
    /\ Len(tasks) > 0

\* C26: the busy flag is set exactly while a classifier request is pending;
\* when the request ends, resolved or rejected, the flag is false; while it
\* is set the form cannot be submitted, so a pending request is never joined
\* or replaced by another; and the program empties the prompt field only in
\* the step in which a request resolved and its result was applied
C26_BusyFlagTracksRequest ==
    /\ [](isFormProcessing <=> request.state = "pending")
    /\ [](isFormProcessing => \A p \in FormPrompts : ~ENABLED Submit(p))
    /\ [][request.state = "pending"
            => request' = request \/ request'.state = "idle"]_vars
    /\ [][last'.op = "submit"
            => /\ ~isFormProcessing'
               /\ request'.state = "idle"
               /\ promptField' = IF last'.result.threw THEN promptField ELSE <<>>]_vars
    /\ [][promptField' # promptField
            => \/ \E p \in FormPrompts : Submit(p) \/ SubmitInvalid(p)
               \/ /\ last'.op = "submit"
                  /\ ~last'.result.threw
                  /\ promptField' = <<>>]_vars

\* a request was rejected: the flag is down again and the field still holds
\* the prompt
C26_Witness ==
    /\ last.op = "submit"
    /\ last.result.threw
    /\ ~isFormProcessing
    /\ promptField = PromptBuyAB

-----------------------------------------------------------------------------
(* Overlapping insight requests (SpecOverlap) *)

\* an insight request issued for the selected task is in flight
SelectedRequestInFlight ==
    \E k \in DOMAIN insightReqs : insightReqs[k].id = taskForInsight.id

\* the dialog tells that there are no insights, or that fetching them failed
NoInsightsVisible ==
    /\ isInsightDialogOpen
    /\ ~isLoadingInsight
    /\ insightData.isNull

\* C27: the insight a request has just delivered to the dialog is the
\* response to a request issued for the selected task, and the sub-tasks
\* added from the dialog carry the text of the task they were generated for
C27_InsightBelongsToSelectedTask ==
    (last.op = "insight" /\ ~insightData.isNull) => last.prompt = taskForInsight.text

\* C28: the loading flag is set while a request for the selected task is in
\* flight and is not set when no request is in flight, so the dialog does not
\* tell that there are no insights while that request is outstanding
C28_LoadingFlagAccurate ==
    /\ SelectedRequestInFlight => isLoadingInsight
    /\ insightReqs = <<>> => ~isLoadingInsight
    /\ NoInsightsVisible => ~SelectedRequestInFlight

-----------------------------------------------------------------------------
(* The ids of the list (SpecIds) *)

\* C29: every task of the list has an id, and no two tasks of the list have
\* the same id
C29_IdsPresentAndDistinct ==
    /\ \A i \in DOMAIN tasks : tasks[i].id # 0
    /\ \A i, j \in DOMAIN tasks : tasks[i].id = tasks[j].id => i = j

-----------------------------------------------------------------------------
(* Startup and the stored list (SpecStartup) *)

\* an array of tasks, each with an id
ValidStored(stored) ==
    /\ stored.kind = "array"
    /\ \A i \in DOMAIN stored.items :
          ~stored.items[i].isNull /\ stored.items[i].id # 0

\* C30: when storage holds a valid array of tasks, startup loads those tasks
\* into the list, and storage holds the stored list after each effect of
\* startup: it is never written with another list, the empty one included
C30_StartupKeepsStoredList ==
    [][(Mount /\ ValidStored(storage))
         => /\ tasks' = LoadedTasks(storage.items, nextId)
            /\ Stringify(tasks') = storage
            /\ \A k \in DOMAIN StartupStorage(storage, tasks, nextId) :
                  StartupStorage(storage, tasks, nextId)[k] = storage
            /\ storage' = storage]_vars

\* the page has started on a stored list of one completed task
C30_Witness ==
    /\ last.op = "mount"
    /\ isMounted
    /\ last.raw = Stored("array", <<StoredItem(-1, TextA, TRUE)>>)
    /\ storage = last.raw
    /\ Len(tasks) = 1
    /\ tasks[1].completed
====
